---- MODULE Spec2Model ----
(***************************************************************************)
(* Streaming coordinator of the obstacle-warning backend.                  *)
(*                                                                         *)
(* One WebSocket session of src/Backend/main.py (ws_predict and            *)
(* ws_predict_audio): the message handler that validates inbound text      *)
(* frames and overwrites the one-element pending slot, the background      *)
(* _inference_loop task that polls the slot, classifies, builds the        *)
(* feedback phrase, synthesizes audio through generate_audio               *)
(* (src/Backend/audio_service.py) and sends the response, and the          *)
(* teardown that cancels and awaits the task.                              *)
(*                                                                         *)
(* A step of the model is the code an asyncio task runs between two        *)
(* suspension points (await asyncio.sleep, run_inference, the synthesis    *)
(* backend, websocket.send_json, websocket.receive_text).                  *)
(*                                                                         *)
(* Spec       one streaming session                                        *)
(* SpecFn     one call of get_multiple_objects_text, _get_cache_key or     *)
(*            _save_to_cache / _get_cached_audio on its own                *)
(* SpecSynth  concurrent generate_audio calls of one process on the shared *)
(*            cache directory, executor threads and temporary file         *)
(* SpecSessions  two sessions of one process side by side                  *)
(***************************************************************************)
EXTENDS Integers, Sequences, FiniteSets, TLC

\* ---------------------------------------------------------------- bounds
\* inbound text frames one client sends during a session
MaxMsgs == 2
\* text frames still queued for the handler when the client goes away
MaxLate == 1
\* detections in one list handed to the phrase builder
MaxDets == 4
\* generate_audio calls made outside a session
MaxCalls == 2
\* detections in a list whose rearrangements are compared
MaxPermLen == 3
\* inbound text frames of one client when sessions run side by side
MaxSessionMsgs == 1

\* ------------------------------------------------------- Python values
\* Python's None (a record, so that it compares with dicts and wrapped strings)
None == [none |-> TRUE]
\* a JSON / Python string held in a field that may also hold None
JStr(s) == [str |-> s]
\* truth value of an optional string:  `if direction:`
Truthy(x) == x # None /\ x # JStr("")
\* str(x) as an f-string renders it
PyStr(x) == IF x = None THEN "None" ELSE x.str

\* ------------------------------------------------------------ config.py
WS_MAX_MESSAGE_BYTES == 5242880
DEFAULT_VOICE == JStr("en-US-female-1")
\* rates and pitches are written in tenths: 10 is 1.0
DEFAULT_SPEECH_RATE == 10
DEFAULT_PITCH == 10

\* ------------------------------------------------- audio_service.py data
VoiceNames == {"en-US-female-1", "en-US-female-2", "en-US-male-1", "en-GB-female",
               "en-GB-male", "en-IN-female", "offline-default"}
VOICE_PRESETS ==
  [v \in VoiceNames |->
     CASE v = "en-US-female-1"  -> [backend |-> "gtts", lang |-> "en", tld |-> "com"]
       [] v = "en-US-female-2"  -> [backend |-> "edge", voice |-> "en-US-AriaNeural"]
       [] v = "en-US-male-1"    -> [backend |-> "edge", voice |-> "en-US-GuyNeural"]
       [] v = "en-GB-female"    -> [backend |-> "gtts", lang |-> "en", tld |-> "co.uk"]
       [] v = "en-GB-male"      -> [backend |-> "edge", voice |-> "en-GB-RyanNeural"]
       [] v = "en-IN-female"    -> [backend |-> "gtts", lang |-> "en", tld |-> "co.in"]
       [] v = "offline-default" -> [backend |-> "pyttsx3"]]

\* (variant of voice_config: an unknown name resolves to the offline entry)
voice_config_Offline(voice) ==
  IF voice # None /\ voice.str \in VoiceNames
    THEN VOICE_PRESETS[voice.str]
    ELSE VOICE_PRESETS["offline-default"]

\* VOICE_PRESETS.get(voice, VOICE_PRESETS["en-US-female-1"])
voice_config(voice) ==
  IF voice # None /\ voice.str \in VoiceNames
    THEN VOICE_PRESETS[voice.str]
    ELSE VOICE_PRESETS["en-US-female-1"]

danger_objects == {"fire", "potholes", "vehicles", "barriers", "construction_site"}

\* ------------------------------------------------------- phrase builder
\* Text is a sequence of tokens; joining inserts the separator token.
RECURSIVE Join(_, _)
Join(parts, sep) ==
  IF Len(parts) = 0 THEN <<>>
  ELSE IF Len(parts) = 1 THEN parts[1]
  ELSE parts[1] \o <<sep>> \o Join(Tail(parts), sep)

\* (variant of CleanName: the underscores are kept)
CleanName_Raw(object_name) == object_name
\* object_name.replace("_", " ").lower(), on the class names of config.py
CleanName(object_name) ==
  CASE object_name = "clear_path"        -> "clear path"
    [] object_name = "construction_site" -> "construction site"
    [] object_name = "fire_exits"        -> "fire exits"
    [] OTHER                             -> object_name

\* obj.capitalize()
Capitalize(obj) ==
  CASE obj = "fire"              -> "Fire"
    [] obj = "barriers"          -> "Barriers"
    [] obj = "doors"             -> "Doors"
    [] obj = "walls"             -> "Walls"
    [] obj = "potholes"          -> "Potholes"
    [] obj = "vehicles"          -> "Vehicles"
    [] obj = "construction site" -> "Construction site"
    [] obj = "fire exits"        -> "Fire exits"
    [] OTHER                     -> obj

DirectionKeys == {"front", "center", "left", "right"}
\* (variant of direction_phrases: the two sides are exchanged)
direction_phrases_Mirrored(d) ==
  CASE d = "front"  -> "in front of you"
    [] d = "center" -> "ahead"
    [] d = "left"   -> "on your right side"
    [] d = "right"  -> "on your left side"
direction_phrases(d) ==
  CASE d = "front"  -> "in front of you"
    [] d = "center" -> "ahead"
    [] d = "left"   -> "on your left side"
    [] d = "right"  -> "on your right side"

DistanceKeys == {"close", "medium", "far"}
distance_phrases(d) ==
  CASE d = "close"  -> "very close"
    [] d = "medium" -> "at medium distance"
    [] d = "far"    -> "far ahead"

\* a phrase, or the exception the builder raised
TextOk(t) == [ok |-> TRUE, text |-> t]
TextErr(e) == [ok |-> FALSE, error |-> e]

\* (variant of get_direction_text: an unknown distance is left out)
get_direction_text_Lenient(object_name, direction, distance) ==
  LET obj == CleanName(object_name)
      p1  == << <<Capitalize(obj)>>, <<"detected">> >>
      p2  == IF Truthy(direction)
               THEN Append(p1, << IF direction.str \in DirectionKeys
                                    THEN direction_phrases(direction.str)
                                    ELSE "nearby" >>)
               ELSE p1
  IN  IF obj = "clear path" THEN TextOk(<<"Clear path ahead">>)
      ELSE IF Truthy(distance) /\ distance.str \in DistanceKeys
        THEN TextOk(Join(Append(p2, <<distance_phrases(distance.str)>>), " "))
        ELSE TextOk(Join(p2, " "))

get_direction_text(object_name, direction, distance) ==
  LET obj == CleanName(object_name)
      p1  == << <<Capitalize(obj)>>, <<"detected">> >>
      p2  == IF Truthy(direction)
               THEN Append(p1, << IF direction.str \in DirectionKeys
                                    THEN direction_phrases(direction.str)
                                    ELSE "nearby" >>)
               ELSE p1
  IN  IF obj = "clear path" THEN TextOk(<<"Clear path ahead">>)
      ELSE IF Truthy(distance)
        THEN IF distance.str \in DistanceKeys
               THEN TextOk(Join(Append(p2, <<distance_phrases(distance.str)>>), " "))
               ELSE TextErr("KeyError")
        ELSE TextOk(Join(p2, " "))

\* det.get(k)
DetGet(det, k) == IF k \in DOMAIN det THEN det[k] ELSE None

\* the sort key (x["label"] in danger_objects, x.get("confidence", 0))
KeyGT(a, b) ==
  LET da == a.label \in danger_objects
      db == b.label \in danger_objects
      ca == IF "confidence" \in DOMAIN a THEN a.confidence ELSE 0
      cb == IF "confidence" \in DOMAIN b THEN b.confidence ELSE 0
  IN  (da /\ ~db) \/ (da = db /\ ca > cb)

\* (variant of InsertDesc: an element goes in front of the elements of equal key)
InsertDesc_Unstable(s, x) ==
  LET idx == {i \in 1..Len(s) : ~KeyGT(s[i], x)}
      pos == IF idx = {} THEN Len(s) + 1
             ELSE CHOOSE i \in idx : \A j \in idx : i <= j
  IN  SubSeq(s, 1, pos - 1) \o <<x>> \o SubSeq(s, pos, Len(s))

\* sorted(detections, key=..., reverse=True): descending and stable
InsertDesc(s, x) ==
  LET idx == {i \in 1..Len(s) : KeyGT(x, s[i])}
      pos == IF idx = {} THEN Len(s) + 1
             ELSE CHOOSE i \in idx : \A j \in idx : i <= j
  IN  SubSeq(s, 1, pos - 1) \o <<x>> \o SubSeq(s, pos, Len(s))

\* (variant of SortedDesc: the list is taken in the order given)
SortedDesc_AsGiven(dets) == dets
RECURSIVE SortedDesc(_)
SortedDesc(dets) ==
  IF dets = <<>> THEN <<>>
  ELSE InsertDesc(SortedDesc(SubSeq(dets, 1, Len(dets) - 1)), dets[Len(dets)])

\* (variant of CountToken: the length of the whole list is said)
CountToken_Total(n) ==
  CASE n = 1 -> "4" [] n = 2 -> "5" [] n = 3 -> "6" [] OTHER -> "n"
\* str(len(sorted_dets) - 3)
CountToken(n) ==
  CASE n = 1 -> "1" [] n = 2 -> "2" [] n = 3 -> "3" [] OTHER -> "n"

get_multiple_objects_text(detections) ==
  IF Len(detections) = 0 THEN TextOk(<<"No objects detected. Clear path ahead">>)
  ELSE IF Len(detections) = 1
    THEN get_direction_text(detections[1].label,
                            DetGet(detections[1], "direction"),
                            DetGet(detections[1], "distance"))
  ELSE
    LET sorted_dets == SortedDesc(detections)
        top  == SubSeq(sorted_dets, 1, IF Len(sorted_dets) < 3 THEN Len(sorted_dets) ELSE 3)
        msgs == [i \in 1..Len(top) |->
                   get_direction_text(top[i].label, DetGet(top[i], "direction"),
                                      DetGet(top[i], "distance"))]
        more == IF Len(sorted_dets) > 3
                  THEN << <<"And ", CountToken(Len(sorted_dets) - 3), " more objects">> >>
                  ELSE <<>>
    IN  IF \E i \in 1..Len(top) : ~msgs[i].ok
          THEN TextErr("KeyError")
          ELSE TextOk(Join([i \in 1..Len(top) |-> msgs[i].text] \o more, ". "))

\* -------------------------------------------------------- audio cache
FormatFloat(r) ==
  CASE r = 5 -> "0.5" [] r = 10 -> "1.0" [] r = 15 -> "1.5" [] r = 20 -> "2.0"

\* the characters of a string: a name that holds the separator is split at
\* it, any other name is one token
StrChars(s) ==
  CASE s = "b|c" -> <<"b", "|", "c">>
    [] OTHER     -> <<s>>

\* the string fed to the digest, f"{text}|{voice}|{rate}|{pitch}"; the digest
\* itself is taken collision-free
_get_cache_key(text, voice, rate, pitch) ==
  text \o <<"|">> \o StrChars(PyStr(voice))
       \o <<"|", FormatFloat(rate), "|", FormatFloat(pitch)>>

\* the cache directory is a map from keys to file contents
_get_cached_audio(files, cache_key) ==
  IF cache_key \in DOMAIN files
    THEN [found |-> TRUE, data |-> files[cache_key]]
    ELSE [found |-> FALSE, data |-> <<>>]

\* `if cached:` -- None and b"" are both false
CachedTruthy(c) == c.found /\ c.data # <<>>

\* (variant of _save_to_cache: a file that exists is not written again)
_save_to_cache_KeepOld(files, cache_key, audio_bytes) == files @@ (cache_key :> audio_bytes)
\* cache_file.write_bytes(audio_bytes)
_save_to_cache(files, cache_key, audio_bytes) == (cache_key :> audio_bytes) @@ files

\* ---------------------------------------------------- inbound text frames
\* A text frame is its length and what json.loads makes of it.  JSON values
\* are tagged: dict (a function from keys), list, num; "invalid" is a text
\* json.loads rejects with JSONDecodeError.
JDict(d) == [t |-> "dict", v |-> d]
JList(l) == [t |-> "list", v |-> [items |-> l]]
JNum(n) == [t |-> "num", v |-> [num |-> n]]
NotJson == [t |-> "invalid"]

\* len(raw) > WS_MAX_MESSAGE_BYTES * 1.4
TooLarge(raw) == raw.len * 10 > WS_MAX_MESSAGE_BYTES * 14

\* `"frame" not in msg` raises TypeError unless msg is a container
InRaises(msg) == msg.t \notin {"dict", "list"}
\* `key in msg`: a key of a dict, an element of a list
Contains(msg, key) ==
  IF msg.t = "dict" THEN key \in DOMAIN msg.v
  ELSE \E i \in 1..Len(msg.v.items) : msg.v.items[i] = JStr(key)

\* base64.b64decode(s) without validation: characters outside the alphabet
\* are dropped, wrong padding raises
B64Decodable == {"QUJD", "QUJD!", "QQ=="}
b64decode(s) ==
  CASE s = "QUJD"  -> <<65, 66, 67>>
    [] s = "QUJD!" -> <<65, 66, 67>>
    [] s = "QQ=="  -> <<65>>

\* msg["frame"] followed by base64.b64decode inside the try block: indexing
\* a list with a string, or decoding a non-string, raises
FrameRaises(msg) ==
  \/ msg.t # "dict"
  \/ "str" \notin DOMAIN msg.v.frame
  \/ msg.v.frame.str \notin B64Decodable

\* msg.get(key, default)
MsgGet(msg, key, default) == IF key \in DOMAIN msg.v THEN msg.v[key] ELSE default

\* the request dict of ws_predict_audio; ws_predict keeps the bytes only
BuildRequest(v, id, msg) ==
  IF v = "audio"
    THEN [id          |-> id,
          frame_bytes |-> b64decode(msg.v.frame.str),
          direction   |-> MsgGet(msg, "direction", None),
          distance    |-> MsgGet(msg, "distance", None),
          voice       |-> MsgGet(msg, "voice", DEFAULT_VOICE),
          rate        |-> MsgGet(msg, "rate", DEFAULT_SPEECH_RATE),
          pitch       |-> MsgGet(msg, "pitch", DEFAULT_PITCH)]
    ELSE [id |-> id, frame_bytes |-> b64decode(msg.v.frame.str)]

\* what the handler's loop body does with one text frame
HandlerOutcome(raw) ==
  IF TooLarge(raw) THEN [kind |-> "reply", error |-> "Frame too large."]
  ELSE IF raw.body = NotJson THEN [kind |-> "reply", error |-> "Invalid JSON."]
  ELSE IF InRaises(raw.body) THEN [kind |-> "raise", error |-> "TypeError"]
  ELSE IF ~Contains(raw.body, "frame")
    THEN [kind |-> "reply", error |-> "Missing 'frame' key."]
  ELSE IF FrameRaises(raw.body)
    THEN [kind |-> "reply", error |-> "Invalid base64 in 'frame'."]
  ELSE [kind |-> "submit", error |-> ""]

\* the text frames a client of the model sends
\* lengths on either side of the size limit
RawLens == {7340032, 7340033}
ValidBodies ==
  { JDict([frame |-> JStr("QUJD")]),
    JDict([frame |-> JStr("QQ=="), direction |-> JStr("left"), voice |-> JStr("en-GB-male")]),
    JDict([frame |-> JStr("QUJD!"), distance |-> JStr("near")]),
    JDict([frame |-> JStr("QUJD"), direction |-> JStr("behind")]) }
MalformedBodies ==
  { NotJson,
    JNum(5),
    JDict([direction |-> JStr("left")]),
    JDict([frame |-> JStr("QQ")]),
    JList(<<JStr("frame")>>) }
Messages ==
  {[len |-> 7340032, body |-> b] : b \in ValidBodies \cup MalformedBodies}
    \cup {[len |-> 7340033, body |-> JDict([frame |-> JStr("QUJD")])]}

\* what the classifier returns for a frame (run_inference is a collaborator)
DetLists ==
  { <<>>,
    <<[label |-> "barriers", confidence |-> 92]>>,
    <<[label |-> "fire", confidence |-> 80], [label |-> "doors", confidence |-> 95]>> }
\* what a synthesis backend returns
AudioBytes == { <<>>, <<1, 2>> }

\* --------------------------------------------------------------- state
VARIABLES
  variant,             \* "plain": /ws/predict, "audio": /ws/predict-audio
  ENABLE_AUDIO_CACHE,  \* config.py
  conn,                \* "open", "lost" (client gone), "closed"
  late,                \* text frames queued for the handler when the client left
  nmsgs,               \* text frames received so far
  hpc,                 \* handler: "receive", "await_task", "returned"
  hexc,                \* the exception that ended the handler's loop
  wpc,                 \* worker: "poll", "infer", "synth", "send", "send_err", "done", "cancelled"
  pending,             \* pending_frame / pending_request, a one-element list
  busy,                \* busy.is_set()
  cur,                 \* the worker's frame_bytes / request
  loc,                 \* the worker's enriched_predictions, text_feedback, cache_key
  out,                 \* the payload the worker is sending
  cache,               \* files of CACHE_DIR: cache key -> bytes
  nextId,              \* identity given to the next stored unit
  sent,                \* messages the worker delivered to the client, in order
  lastRaw,             \* the text frame the handler received last
  hreply,              \* the error payload the handler delivered in answer to it
  taken,               \* ids of the units the worker took, in order
  dropped,             \* ids of the units overwritten in the slot
  calls,               \* generate_audio calls made outside a session: call -> its frame
  tempfile,            \* CACHE_DIR / temp_<pid>.mp3 of _generate_pyttsx3
  fin,                 \* arguments of a helper function called on its own
  fout,                \* what that call returned
  sessions             \* connections served side by side: session -> its handler and worker

\* the state outside one streaming session
xvars == <<calls, tempfile, fin, fout, sessions>>
\* the state of one streaming session, the shared cache directory apart
svars == <<variant, ENABLE_AUDIO_CACHE, conn, late, nmsgs, hpc, hexc, wpc, pending, busy,
           cur, loc, out, nextId, sent, lastRaw, hreply, taken, dropped>>

vars == <<variant, ENABLE_AUDIO_CACHE, conn, late, nmsgs, hpc, hexc, wpc, pending, busy,
          cur, loc, out, cache, nextId, sent, lastRaw, hreply, taken, dropped, xvars>>

Init ==
  /\ variant \in {"plain", "audio"}
  /\ ENABLE_AUDIO_CACHE \in (IF variant = "audio" THEN BOOLEAN ELSE {TRUE})
  /\ conn = "open"
  /\ late = 0
  /\ nmsgs = 0
  /\ hpc = "receive"
  /\ hexc = ""
  /\ wpc = "poll"
  /\ pending = <<None>>
  /\ busy = FALSE
  /\ cur = None
  /\ loc = None
  /\ out = None
  /\ cache = <<>>
  /\ nextId = 1
  /\ sent = <<>>
  /\ lastRaw = None
  /\ hreply = None
  /\ taken = <<>>
  /\ dropped = {}
  /\ calls = <<>>
  /\ tempfile = None
  /\ fin = None
  /\ fout = None
  /\ sessions = <<>>

\* one delivered message, as the histories record it
SentEntry(unit, payload) ==
  [unit  |-> unit,
   error |-> IF "error" \in DOMAIN payload THEN payload.error ELSE "",
   keys  |-> DOMAIN payload]

\* websocket.send_json succeeds while the peer is there
SendWorks(c) == c = "open"

\* ------------------------------------------------------------- mailbox
\* (variant of SubmitSlot: an occupied slot keeps the unit it holds)
SubmitSlot_KeepOld(slot, unit) == IF slot[1] = None THEN [slot EXCEPT ![1] = unit] ELSE slot
\* pending_request[0] = request
SubmitSlot(slot, unit) == [slot EXCEPT ![1] = unit]
\* (variant of ClearSlot: the slot is read and not cleared)
ClearSlot_Keep(slot) == slot
\* pending_request[0] = None
ClearSlot(slot) == [slot EXCEPT ![1] = None]

\* loop_task.cancel() has been called and the task has not finished yet
CancelRequested == hpc = "await_task"
WorkerFinished == wpc \in {"done", "cancelled"}

\* ------------------------------------------------------------- handler
\* (variant of Teardown: the handler returns without cancelling and awaiting the task)
Teardown_NoAwait(exc) ==
  /\ hexc' = exc
  /\ hpc' = "returned"
  /\ conn' = "closed"

\* the finally block: loop_task.cancel(), await loop_task
Teardown(exc) ==
  /\ hexc' = exc
  /\ IF WorkerFinished
       THEN hpc' = "returned" /\ conn' = "closed"
       ELSE hpc' = "await_task" /\ conn' = conn

\* (variant of CanReceive: a frame is read only while the worker is idle)
CanReceive_WhenIdle ==
  /\ hpc = "receive"
  /\ ~busy
  /\ nmsgs < MaxMsgs
  /\ conn = "open" \/ (conn = "lost" /\ late > 0)

CanReceive ==
  /\ hpc = "receive"
  /\ nmsgs < MaxMsgs
  /\ conn = "open" \/ (conn = "lost" /\ late > 0)

ReceiveCommon(raw) ==
  /\ nmsgs' = nmsgs + 1
  /\ lastRaw' = raw
  /\ late' = IF conn = "lost" THEN late - 1 ELSE late

\* a valid text frame: decode, build the unit, overwrite the slot
HandlerSubmit(raw) ==
  /\ CanReceive
  /\ HandlerOutcome(raw).kind = "submit"
  /\ ReceiveCommon(raw)
  /\ pending' = SubmitSlot(pending, BuildRequest(variant, nextId, raw.body))
  /\ dropped' = IF pending[1] = None THEN dropped ELSE dropped \cup {pending[1].id}
  /\ nextId' = nextId + 1
  /\ hreply' = None
  /\ UNCHANGED <<xvars, variant, ENABLE_AUDIO_CACHE, conn, hpc, hexc, wpc, busy, cur, loc, out,
                 cache, sent, taken>>

\* (variant of HandlerReject: a rejected frame also empties the slot)
HandlerReject_ClearsSlot(raw) ==
  /\ CanReceive
  /\ HandlerOutcome(raw).kind = "reply"
  /\ ReceiveCommon(raw)
  /\ IF SendWorks(conn)
       THEN /\ hreply' = [error |-> HandlerOutcome(raw).error]
            /\ UNCHANGED <<hpc, hexc, conn>>
       ELSE /\ Teardown("SendFailed")
            /\ hreply' = None
  /\ pending' = ClearSlot(pending)
  /\ UNCHANGED <<xvars, variant, ENABLE_AUDIO_CACHE, wpc, busy, cur, loc, out, cache,
                 nextId, sent, taken, dropped>>

\* a malformed text frame: answer with the error payload and continue; a
\* failed send leaves the loop through the finally block
HandlerReject(raw) ==
  /\ CanReceive
  /\ HandlerOutcome(raw).kind = "reply"
  /\ ReceiveCommon(raw)
  /\ IF SendWorks(conn)
       THEN /\ hreply' = [error |-> HandlerOutcome(raw).error]
            /\ UNCHANGED <<hpc, hexc, conn>>
       ELSE /\ Teardown("SendFailed")
            /\ hreply' = None
  /\ UNCHANGED <<xvars, variant, ENABLE_AUDIO_CACHE, wpc, pending, busy, cur, loc, out, cache,
                 nextId, sent, taken, dropped>>

\* a text frame on which the loop body raises outside its try blocks
HandlerRaise(raw) ==
  /\ CanReceive
  /\ HandlerOutcome(raw).kind = "raise"
  /\ ReceiveCommon(raw)
  /\ Teardown(HandlerOutcome(raw).error)
  /\ hreply' = None
  /\ UNCHANGED <<xvars, variant, ENABLE_AUDIO_CACHE, wpc, pending, busy, cur, loc, out, cache,
                 nextId, sent, taken, dropped>>

\* receive_text raises WebSocketDisconnect once the queued frames are read
HandlerDisconnect ==
  /\ hpc = "receive"
  /\ conn = "lost"
  /\ late = 0
  /\ Teardown("WebSocketDisconnect")
  /\ UNCHANGED <<xvars, variant, ENABLE_AUDIO_CACHE, late, nmsgs, wpc, pending, busy, cur, loc,
                 out, cache, nextId, sent, taken, dropped, lastRaw, hreply>>

\* await loop_task returns once the task has finished
HandlerReturn ==
  /\ hpc = "await_task"
  /\ WorkerFinished
  /\ hpc' = "returned"
  /\ conn' = "closed"
  /\ UNCHANGED <<xvars, variant, ENABLE_AUDIO_CACHE, late, nmsgs, hexc, wpc, pending, busy, cur,
                 loc, out, cache, nextId, sent, taken, dropped, lastRaw, hreply>>

\* the client goes away, leaving some text frames queued for the handler
ClientDisconnect ==
  /\ conn = "open"
  /\ hpc = "receive"
  /\ conn' = "lost"
  /\ \E n \in 0..MaxLate : n <= MaxMsgs - nmsgs /\ late' = n
  /\ UNCHANGED <<xvars, variant, ENABLE_AUDIO_CACHE, nmsgs, hpc, hexc, wpc, pending, busy, cur,
                 loc, out, cache, nextId, sent, taken, dropped, lastRaw, hreply>>

\* -------------------------------------------------------------- worker
\* The loop head, run when the poll wakes up and right after the finally
\* block: with an empty slot the task sleeps again; otherwise busy.set(),
\* the unit is read and the slot cleared before the next suspension point.
LoopHead ==
  IF pending[1] = None
    THEN /\ wpc' = "poll"
         /\ busy' = FALSE
         /\ cur' = None
         /\ UNCHANGED <<pending, taken>>
    ELSE /\ wpc' = "infer"
         /\ busy' = TRUE
         /\ cur' = pending[1]
         /\ pending' = ClearSlot(pending)
         /\ taken' = Append(taken, pending[1].id)

\* the poll finds a unit in the slot
WorkerTake ==
  /\ wpc = "poll"
  /\ ~CancelRequested
  /\ pending[1] # None
  /\ LoopHead
  /\ UNCHANGED <<xvars, variant, ENABLE_AUDIO_CACHE, conn, late, nmsgs, hpc, hexc, loc, out,
                 cache, nextId, sent, dropped, lastRaw, hreply>>

\* enriched = pred.copy() with the request's direction and distance
Enrich(pred, direction, distance) ==
  LET a == IF Truthy(direction) THEN [direction |-> direction] @@ pred ELSE pred
  IN  IF Truthy(distance) THEN [distance |-> distance] @@ a ELSE a

\* the text feedback of the streaming worker
WorkerText(enriched) ==
  IF Len(enriched) > 0 THEN get_multiple_objects_text(enriched)
  ELSE TextOk(<<"Clear path ahead">>)

\* base64.b64encode(audio_bytes).decode('utf-8')
b64encode(bytes) == [b64 |-> bytes]

AudioPayload(enriched, text, audio_bytes) ==
  [predictions   |-> enriched,
   text_feedback |-> text,
   audio         |-> b64encode(audio_bytes),
   latency_ms    |-> "ms"]

\* (variant of InferOkPlain: the plain worker also asks for speech)
InferOkPlain_Synth(predictions) ==
  /\ wpc = "infer"
  /\ ~CancelRequested
  /\ variant = "plain"
  /\ loc' = [enriched_predictions |-> predictions,
             text_feedback |-> WorkerText(predictions).text,
             cache_key |-> _get_cache_key(WorkerText(predictions).text, DEFAULT_VOICE,
                                          DEFAULT_SPEECH_RATE, DEFAULT_PITCH),
             backend |-> voice_config(DEFAULT_VOICE).backend]
  /\ wpc' = "synth"
  /\ UNCHANGED <<xvars, variant, ENABLE_AUDIO_CACHE, conn, late, nmsgs, hpc, hexc, pending,
                 busy, cur, out, cache, nextId, sent, taken, dropped, lastRaw, hreply>>

\* run_inference returned: /ws/predict sends the predictions
InferOkPlain(predictions) ==
  /\ wpc = "infer"
  /\ ~CancelRequested
  /\ variant = "plain"
  /\ out' = [predictions |-> predictions, latency_ms |-> "ms"]
  /\ wpc' = "send"
  /\ UNCHANGED <<xvars, variant, ENABLE_AUDIO_CACHE, conn, late, nmsgs, hpc, hexc, pending, busy,
                 cur, loc, cache, nextId, sent, taken, dropped, lastRaw, hreply>>

\* run_inference returned: /ws/predict-audio enriches, builds the phrase and
\* enters generate_audio up to its first suspension point
InferOkAudio(predictions) ==
  /\ wpc = "infer"
  /\ ~CancelRequested
  /\ variant = "audio"
  /\ LET enriched == [i \in 1..Len(predictions) |->
                        Enrich(predictions[i], cur.direction, cur.distance)]
         text     == WorkerText(enriched)
     IN  IF ~text.ok
           THEN /\ out' = [error |-> text.error]
                /\ wpc' = "send_err"
                /\ loc' = loc
           ELSE LET cache_key == _get_cache_key(text.text, cur.voice, cur.rate, cur.pitch)
                    cached    == _get_cached_audio(cache, cache_key)
                IN  IF ENABLE_AUDIO_CACHE /\ CachedTruthy(cached)
                      THEN /\ out' = AudioPayload(enriched, text.text, cached.data)
                           /\ wpc' = "send"
                           /\ loc' = loc
                      ELSE /\ loc' = [enriched_predictions |-> enriched,
                                      text_feedback |-> text.text,
                                      cache_key |-> cache_key,
                                      backend |-> voice_config(cur.voice).backend]
                           /\ wpc' = "synth"
                           /\ out' = out
  /\ UNCHANGED <<xvars, variant, ENABLE_AUDIO_CACHE, conn, late, nmsgs, hpc, hexc, pending, busy,
                 cur, cache, nextId, sent, taken, dropped, lastRaw, hreply>>

\* (variant of InferFail: the failure is logged and the unit silently skipped)
InferFail_Silent ==
  /\ wpc = "infer"
  /\ ~CancelRequested
  /\ LoopHead
  /\ UNCHANGED <<xvars, variant, ENABLE_AUDIO_CACHE, conn, late, nmsgs, hpc, hexc, loc, out,
                 cache, nextId, sent, dropped, lastRaw, hreply>>

\* run_inference raised
InferFail ==
  /\ wpc = "infer"
  /\ ~CancelRequested
  /\ out' = [error |-> "InferenceError"]
  /\ wpc' = "send_err"
  /\ UNCHANGED <<xvars, variant, ENABLE_AUDIO_CACHE, conn, late, nmsgs, hpc, hexc, pending, busy,
                 cur, loc, cache, nextId, sent, taken, dropped, lastRaw, hreply>>

\* what a failed write_bytes may leave under the key: nothing new, or a
\* file holding a proper prefix of the bytes
PartialWrites(files, cache_key, audio_bytes) ==
  {files} \cup
  { _save_to_cache(files, cache_key, SubSeq(audio_bytes, 1, n)) :
      n \in 0..(IF Len(audio_bytes) = 0 THEN 0 ELSE Len(audio_bytes) - 1) }

\* the backend returned and the result is cached and handed to send_json
SynthOk(audio_bytes) ==
  /\ wpc = "synth"
  /\ ~CancelRequested
  /\ cache' = IF ENABLE_AUDIO_CACHE
                THEN _save_to_cache(cache, loc.cache_key, audio_bytes)
                ELSE cache
  /\ out' = AudioPayload(loc.enriched_predictions, loc.text_feedback, audio_bytes)
  /\ wpc' = "send"
  /\ loc' = None
  /\ UNCHANGED <<xvars, variant, ENABLE_AUDIO_CACHE, conn, late, nmsgs, hpc, hexc, pending, busy,
                 cur, nextId, sent, taken, dropped, lastRaw, hreply>>

\* the backend returned and _save_to_cache raised: generate_audio re-raises
SynthSaveFail(audio_bytes) ==
  /\ wpc = "synth"
  /\ ~CancelRequested
  /\ ENABLE_AUDIO_CACHE
  /\ cache' \in PartialWrites(cache, loc.cache_key, audio_bytes)
  /\ out' = [error |-> "OSError"]
  /\ wpc' = "send_err"
  /\ loc' = None
  /\ UNCHANGED <<xvars, variant, ENABLE_AUDIO_CACHE, conn, late, nmsgs, hpc, hexc, pending, busy,
                 cur, nextId, sent, taken, dropped, lastRaw, hreply>>

\* (variant of CacheAfterBackendError: an empty file is left under the key)
CacheAfterBackendError_Stub(files, cache_key) == _save_to_cache(files, cache_key, <<>>)
\* the cache after the synthesis backend raised
CacheAfterBackendError(files, cache_key) == files

\* the backend raised: generate_audio logs and re-raises
SynthFail ==
  /\ wpc = "synth"
  /\ ~CancelRequested
  /\ cache' = CacheAfterBackendError(cache, loc.cache_key)
  /\ out' = [error |-> "SynthesisError"]
  /\ wpc' = "send_err"
  /\ loc' = None
  /\ UNCHANGED <<xvars, variant, ENABLE_AUDIO_CACHE, conn, late, nmsgs, hpc, hexc, pending, busy,
                 cur, nextId, sent, taken, dropped, lastRaw, hreply>>

\* send_json of the result: delivered, or it raises and the except block
\* starts sending the error payload
WorkerSend ==
  /\ wpc = "send"
  /\ ~CancelRequested
  /\ IF SendWorks(conn)
       THEN /\ sent' = Append(sent, SentEntry(cur.id, out))
            /\ out' = None
            /\ LoopHead
       ELSE /\ out' = [error |-> "SendFailed"]
            /\ wpc' = "send_err"
            /\ UNCHANGED <<sent, busy, cur, pending, taken>>
  /\ UNCHANGED <<xvars, variant, ENABLE_AUDIO_CACHE, conn, late, nmsgs, hpc, hexc, loc, cache,
                 nextId, dropped, lastRaw, hreply>>

\* (variant of AfterErrorSent: the loop is left after any error)
AfterErrorSent_Break ==
  /\ wpc' = "done"
  /\ busy' = FALSE
  /\ cur' = None
  /\ UNCHANGED <<pending, taken>>

\* (variant of AfterErrorSent: the failed unit goes back into an empty slot)
AfterErrorSent_Requeue ==
  /\ wpc' = "poll"
  /\ busy' = FALSE
  /\ cur' = None
  /\ pending' = IF pending[1] = None THEN SubmitSlot(pending, cur) ELSE pending
  /\ taken' = taken

\* after the error payload was delivered the loop goes on
AfterErrorSent == LoopHead

\* (variant of AfterErrorSendFailed: the loop goes on after a failed send)
AfterErrorSendFailed_Continue == LoopHead

\* after the error payload could not be delivered: break, finally
AfterErrorSendFailed ==
  /\ wpc' = "done"
  /\ busy' = FALSE
  /\ cur' = None
  /\ UNCHANGED <<pending, taken>>

\* send_json of the error payload in the except block
WorkerSendErr ==
  /\ wpc = "send_err"
  /\ ~CancelRequested
  /\ out' = None
  /\ IF SendWorks(conn)
       THEN /\ sent' = Append(sent, SentEntry(cur.id, out))
            /\ AfterErrorSent
       ELSE /\ sent' = sent
            /\ AfterErrorSendFailed
  /\ UNCHANGED <<xvars, variant, ENABLE_AUDIO_CACHE, conn, late, nmsgs, hpc, hexc, loc, cache,
                 nextId, dropped, lastRaw, hreply>>

\* (variant of WorkerCancelled: the finally block does not run)
WorkerCancelled_NoFinally ==
  /\ CancelRequested
  /\ ~WorkerFinished
  /\ wpc' = "cancelled"
  /\ cur' = None
  /\ loc' = None
  /\ out' = None
  /\ UNCHANGED <<xvars, variant, ENABLE_AUDIO_CACHE, conn, late, nmsgs, hpc, hexc, pending, busy,
                 cache, nextId, sent, taken, dropped, lastRaw, hreply>>

\* CancelledError is thrown into the task at its suspension point; it is not
\* an Exception, so only the finally block runs
WorkerCancelled ==
  /\ CancelRequested
  /\ ~WorkerFinished
  /\ wpc' = "cancelled"
  /\ busy' = FALSE
  /\ cur' = None
  /\ loc' = None
  /\ out' = None
  /\ UNCHANGED <<xvars, variant, ENABLE_AUDIO_CACHE, conn, late, nmsgs, hpc, hexc, pending, cache,
                 nextId, sent, taken, dropped, lastRaw, hreply>>

\* ------------------------------------------------------- specification
Next ==
  \/ \E raw \in Messages : HandlerSubmit(raw)
  \/ \E raw \in Messages : HandlerRaise(raw)
  \/ \E raw \in Messages : HandlerReject(raw)
  \/ HandlerDisconnect
  \/ HandlerReturn
  \/ ClientDisconnect
  \/ WorkerTake
  \/ \E predictions \in DetLists : InferOkPlain(predictions)
  \/ \E predictions \in DetLists : InferOkAudio(predictions)
  \/ InferFail
  \/ \E audio_bytes \in AudioBytes : SynthOk(audio_bytes)
  \/ \E audio_bytes \in AudioBytes : SynthSaveFail(audio_bytes)
  \/ SynthFail
  \/ WorkerSend
  \/ WorkerSendErr
  \/ WorkerCancelled

Spec == Init /\ [][Next]_vars

TypeOK ==
  /\ variant \in {"plain", "audio"}
  /\ conn \in {"open", "lost", "closed"}
  /\ hpc \in {"receive", "await_task", "returned"}
  /\ wpc \in {"poll", "infer", "synth", "send", "send_err", "done", "cancelled"}
  /\ busy \in BOOLEAN
  /\ nmsgs \in 0..MaxMsgs

\* ------------------------------------------- helper functions on their own
\* The phrase builder and the cache helpers are also called outside a
\* session (/predict-with-audio, /text-to-speech).  Here one call of one
\* helper is made on arguments drawn from the sets below.

\* no streaming session is open
NoSession ==
  /\ variant = "audio"
  /\ ENABLE_AUDIO_CACHE = TRUE
  /\ conn = "closed"
  /\ late = 0
  /\ nmsgs = 0
  /\ hpc = "returned"
  /\ hexc = ""
  /\ wpc = "cancelled"
  /\ pending = <<None>>
  /\ busy = FALSE
  /\ cur = None
  /\ loc = None
  /\ out = None
  /\ nextId = 1
  /\ sent = <<>>
  /\ lastRaw = None
  /\ hreply = None
  /\ taken = <<>>
  /\ dropped = {}

\* a detection dict with the optional keys it carries
WithField(det, k, x) == IF x = "absent" THEN det ELSE (k :> JStr(x)) @@ det

\* one detection, with every documented, empty and undocumented position
SingleDets ==
  { WithField(WithField([label |-> l, confidence |-> 90], "direction", dir), "distance", dist) :
      l \in {"barriers", "fire_exits", "clear_path"},
      dir \in {"absent", "front", "center", "left", "right", "", "behind"},
      dist \in {"absent", "close", "medium", "far", "", "near"} }

\* detections of longer lists: ties in both classes, one without confidence
MultiPool ==
  { [label |-> "fire", confidence |-> 80],
    [label |-> "doors", confidence |-> 95],
    [label |-> "walls", confidence |-> 95],
    [label |-> "potholes"],
    [label |-> "barriers", confidence |-> 80, direction |-> JStr("left"),
     distance |-> JStr("close")],
    [label |-> "clear_path", confidence |-> 70, distance |-> JStr("near")] }

PhraseInputs ==
  { <<>> } \cup { <<d>> : d \in SingleDets }
    \cup UNION { [1..n -> MultiPool] : n \in 2..MaxDets }

\* synthesis requests whose texts and voice names may hold the separator
KeyTexts == { <<"a">>, <<"a", "|", "b">>, <<"b">> }
KeyVoices == { JStr("c"), JStr("b|c"), JStr("en-GB-male"), None }
KeyRequests ==
  [text : KeyTexts, voice : KeyVoices, rate : {10, 15}, pitch : {10, 20}]

\* a cache directory, a key to put under and a key to probe
CacheKeys ==
  { _get_cache_key(<<"a">>, JStr("c"), 10, 10), _get_cache_key(<<"b">>, JStr("c"), 10, 10),
    _get_cache_key(<<"a">>, JStr("c"), 15, 10) }
CacheBlobs == { <<>>, <<7>>, <<1, 2>> }
CacheDirs ==
  { <<>> } \cup { (k :> x) : k \in CacheKeys, x \in CacheBlobs }

\* a list and a rearrangement of it: position i of the second list holds
\* the detection at position perm[i] of the first
Rearrangements(n) == { f \in [1..n -> 1..n] : \A i, j \in 1..n : f[i] = f[j] => i = j }
Permuted(dets, perm) == [i \in 1..Len(dets) |-> dets[perm[i]]]
PermInputs ==
  UNION { { [op |-> "perm", detections |-> d, perm |-> f] :
              d \in [1..n -> MultiPool], f \in Rearrangements(n) } : n \in 2..MaxPermLen }

FnInputs ==
  { [op |-> "phrase", detections |-> d] : d \in PhraseInputs }
    \cup PermInputs
    \cup { [op |-> "key", a |-> a, b |-> b] : a \in KeyRequests, b \in KeyRequests }
    \cup { [op |-> "cache", files |-> f, key |-> k, blob |-> x, probe |-> q] :
             f \in CacheDirs, k \in CacheKeys, x \in CacheBlobs, q \in CacheKeys }

InitFn ==
  /\ NoSession
  /\ cache = <<>>
  /\ calls = <<>>
  /\ tempfile = None
  /\ fin \in FnInputs
  /\ fout = None
  /\ sessions = <<>>

\* get_multiple_objects_text(detections)
CallPhrase ==
  /\ fout = None
  /\ fin.op = "phrase"
  /\ fout' = get_multiple_objects_text(fin.detections)
  /\ UNCHANGED <<svars, sessions, cache, calls, tempfile, fin>>

\* _get_cache_key for two requests
CallCacheKey ==
  /\ fout = None
  /\ fin.op = "key"
  /\ fout' = [ka |-> _get_cache_key(fin.a.text, fin.a.voice, fin.a.rate, fin.a.pitch),
              kb |-> _get_cache_key(fin.b.text, fin.b.voice, fin.b.rate, fin.b.pitch)]
  /\ UNCHANGED <<svars, sessions, cache, calls, tempfile, fin>>

\* _get_cached_audio(probe) on the directory as it is, then
\* _save_to_cache(key, blob) and _get_cached_audio(key)
CallCachePutGet ==
  /\ fout = None
  /\ fin.op = "cache"
  /\ LET after == _save_to_cache(fin.files, fin.key, fin.blob)
     IN  fout' = [before |-> _get_cached_audio(fin.files, fin.probe),
                  files  |-> after,
                  got    |-> _get_cached_audio(after, fin.key)]
  /\ UNCHANGED <<svars, sessions, cache, calls, tempfile, fin>>

\* get_multiple_objects_text on a list and on a rearrangement of it
CallPhrasePermuted ==
  /\ fout = None
  /\ fin.op = "perm"
  /\ fout' = [pa |-> get_multiple_objects_text(fin.detections),
              pb |-> get_multiple_objects_text(Permuted(fin.detections, fin.perm))]
  /\ UNCHANGED <<svars, sessions, cache, calls, tempfile, fin>>

NextFn ==
  \/ CallPhrase
  \/ CallPhrasePermuted
  \/ CallCacheKey
  \/ CallCachePutGet

SpecFn == InitFn /\ [][NextFn]_vars


\* ------------------------------------ generate_audio called concurrently
\* Calls of generate_audio made by request handlers of one process
\* (/text-to-speech, /predict-with-audio) on the shared cache directory.  A
\* call runs on the event loop up to its await; gtts and pyttsx3 jobs run in
\* the two threads of _executor, where _generate_pyttsx3 goes through the
\* per-process temporary file.

\* an optional byte string
Some(x) == [some |-> x]

\* what a backend synthesizes: two chunks that name the request they were
\* made for and the take (no two invocations yield the same bytes); a backend
\* may also hand back no bytes at all
Chunk(k, take, part) == [for |-> k, take |-> take, part |-> part]
Audio(k, take) == <<Chunk(k, take, 1), Chunk(k, take, 2)>>
BackendOutputs(k, take) == { <<>>, Audio(k, take) }

\* the requests made: every backend, an unknown voice, two texts for the
\* offline voice, one request that bypasses the cache
SynthRequest(text, voice, use_cache) ==
  [text |-> text, voice |-> JStr(voice), rate |-> DEFAULT_SPEECH_RATE,
   pitch |-> DEFAULT_PITCH, use_cache |-> use_cache]
SynthArgs ==
  { SynthRequest(<<"a">>, "en-US-female-1", TRUE),
    SynthRequest(<<"a">>, "en-US-female-1", FALSE),
    SynthRequest(<<"a">>, "offline-default", TRUE),
    SynthRequest(<<"b">>, "offline-default", TRUE),
    SynthRequest(<<"a">>, "en-GB-male", TRUE),
    SynthRequest(<<"a">>, "xx-YY-robot", TRUE) }

\* the frame of a call that has not returned from its first step
Frame(args, k) ==
  [text |-> args.text, voice |-> args.voice, rate |-> args.rate, pitch |-> args.pitch,
   use_cache |-> args.use_cache, cache_key |-> k,
   pc |-> "start", voice_config |-> None, audio_bytes |-> None, ret |-> None,
   error |-> "", after |-> {}]

Finished(f) == f.pc \in {"returned", "raised"}
\* jobs that hold a thread of ThreadPoolExecutor(max_workers=2)
InThread(f) == f.pc \in {"gtts", "p_read", "p_unlink"}
ThreadFree == Cardinality({c \in 1..Len(calls) : InThread(calls[c])}) < 2

InitSynth ==
  /\ NoSession
  /\ cache = <<>>
  /\ calls = <<>>
  /\ tempfile = None
  /\ fin = None
  /\ fout = None
  /\ sessions = <<>>

\* (variant of GenStart: the cache is consulted whatever use_cache says)
GenStart_AlwaysLookup(args) ==
  /\ Len(calls) < MaxCalls
  /\ LET k      == _get_cache_key(args.text, args.voice, args.rate, args.pitch)
         cached == _get_cached_audio(cache, k)
         cfg    == voice_config(args.voice)
         f      == [Frame(args, k) EXCEPT
                      !.after = {c \in 1..Len(calls) : Finished(calls[c])}]
     IN  calls' = Append(calls,
           IF CachedTruthy(cached)
             THEN [f EXCEPT !.pc = "returned", !.ret = Some(cached.data)]
             ELSE [f EXCEPT !.voice_config = cfg,
                            !.pc = IF cfg.backend = "edge" THEN "edge" ELSE "queued"])
  /\ UNCHANGED <<svars, sessions, cache, tempfile, fin, fout>>

\* generate_audio up to its first await: the key, the cache lookup, the
\* voice configuration and the submission of the backend job
GenStart(args) ==
  /\ Len(calls) < MaxCalls
  /\ LET k      == _get_cache_key(args.text, args.voice, args.rate, args.pitch)
         cached == _get_cached_audio(cache, k)
         cfg    == voice_config(args.voice)
         f      == [Frame(args, k) EXCEPT
                      !.after = {c \in 1..Len(calls) : Finished(calls[c])}]
     IN  calls' = Append(calls,
           IF args.use_cache /\ CachedTruthy(cached)
             THEN [f EXCEPT !.pc = "returned", !.ret = Some(cached.data)]
             ELSE [f EXCEPT !.voice_config = cfg,
                            !.pc = IF cfg.backend = "edge" THEN "edge" ELSE "queued"])
  /\ UNCHANGED <<svars, sessions, cache, tempfile, fin, fout>>

\* a thread of the executor starts _generate_gtts
ExecRunGtts(c) ==
  /\ calls[c].pc = "queued"
  /\ calls[c].voice_config.backend = "gtts"
  /\ ThreadFree
  /\ calls' = [calls EXCEPT ![c].pc = "gtts"]
  /\ UNCHANGED <<svars, sessions, cache, tempfile, fin, fout>>

\* a thread of the executor starts _generate_pyttsx3: save_to_file and
\* runAndWait leave the speech in temp_<pid>.mp3
ExecRunPyttsx3(c, bytes) ==
  /\ calls[c].pc = "queued"
  /\ calls[c].voice_config.backend = "pyttsx3"
  /\ ThreadFree
  /\ tempfile' = Some(bytes)
  /\ calls' = [calls EXCEPT ![c].pc = "p_read"]
  /\ UNCHANGED <<svars, sessions, cache, fin, fout>>

\* with open(temp_file, 'rb') as f: audio_bytes = f.read()
Pyttsx3Read(c) ==
  /\ calls[c].pc = "p_read"
  /\ calls' = IF tempfile = None
                THEN [calls EXCEPT ![c].pc = "raised", ![c].error = "FileNotFoundError"]
                ELSE [calls EXCEPT ![c].pc = "p_unlink", ![c].audio_bytes = tempfile]
  /\ UNCHANGED <<svars, sessions, cache, tempfile, fin, fout>>

\* temp_file.unlink(); return audio_bytes
Pyttsx3Unlink(c) ==
  /\ calls[c].pc = "p_unlink"
  /\ IF tempfile = None
       THEN /\ calls' = [calls EXCEPT ![c].pc = "raised", ![c].error = "FileNotFoundError",
                                      ![c].audio_bytes = None]
            /\ tempfile' = tempfile
       ELSE /\ calls' = [calls EXCEPT ![c].pc = "resume"]
            /\ tempfile' = None
  /\ UNCHANGED <<svars, sessions, cache, fin, fout>>

\* _generate_gtts or _generate_edge_tts hands back its bytes
BackendReturn(c, bytes) ==
  /\ calls[c].pc \in {"gtts", "edge"}
  /\ calls' = [calls EXCEPT ![c].pc = "resume", ![c].audio_bytes = Some(bytes)]
  /\ UNCHANGED <<svars, sessions, cache, tempfile, fin, fout>>

\* the backend raises: generate_audio logs and re-raises
BackendRaise(c) ==
  /\ calls[c].pc \in {"gtts", "edge"}
  /\ calls' = [calls EXCEPT ![c].pc = "raised", ![c].error = "SynthesisError"]
  /\ UNCHANGED <<svars, sessions, cache, tempfile, fin, fout>>

\* after the await: cache the result, return audio_bytes
GenResume(c) ==
  /\ calls[c].pc = "resume"
  /\ cache' = IF calls[c].use_cache
                THEN _save_to_cache(cache, calls[c].cache_key, calls[c].audio_bytes.some)
                ELSE cache
  /\ calls' = [calls EXCEPT ![c].pc = "returned", ![c].ret = calls[c].audio_bytes]
  /\ UNCHANGED <<svars, sessions, tempfile, fin, fout>>

\* after the await: _save_to_cache raises inside the try block, the except
\* clause logs and re-raises
GenResumeSaveFail(c) ==
  /\ calls[c].pc = "resume"
  /\ calls[c].use_cache
  /\ cache' \in PartialWrites(cache, calls[c].cache_key, calls[c].audio_bytes.some)
  /\ calls' = [calls EXCEPT ![c].pc = "raised", ![c].error = "OSError"]
  /\ UNCHANGED <<svars, sessions, tempfile, fin, fout>>

NextSynth ==
  \/ \E args \in SynthArgs : GenStart(args)
  \/ \E c \in 1..Len(calls) : ExecRunGtts(c)
  \/ \E c \in 1..Len(calls) : \E bytes \in BackendOutputs(calls[c].cache_key, c) :
       ExecRunPyttsx3(c, bytes)
  \/ \E c \in 1..Len(calls) : Pyttsx3Read(c)
  \/ \E c \in 1..Len(calls) : Pyttsx3Unlink(c)
  \/ \E c \in 1..Len(calls) : \E bytes \in BackendOutputs(calls[c].cache_key, c) :
       BackendReturn(c, bytes)
  \/ \E c \in 1..Len(calls) : BackendRaise(c)
  \/ \E c \in 1..Len(calls) : GenResume(c)
  \/ \E c \in 1..Len(calls) : GenResumeSaveFail(c)

SpecSynth == InitSynth /\ [][NextSynth]_vars

\* ------------------------------------------ several sessions side by side
\* Every connection runs its own ws_predict / ws_predict_audio coroutine:
\* pending slot, busy event and worker task are locals of that call.  The
\* cache directory, the executor and the temporary file of _generate_pyttsx3
\* belong to the process.
Sessions == {1, 2}

SessionVoices == {DEFAULT_VOICE, JStr("offline-default")}
\* what the handler stores for a valid frame
SessionUnits(v) ==
  IF v = "plain"
    THEN { [frame_bytes |-> "jpeg"] }
    ELSE { [frame_bytes |-> "jpeg", voice |-> voice, rate |-> DEFAULT_SPEECH_RATE,
            pitch |-> DEFAULT_PITCH] : voice \in SessionVoices }
\* what run_inference returns
SessionPredictions == { <<>>, <<[label |-> "barriers", confidence |-> 92]>> }

\* a connection just accepted, its worker task created
FreshSession(v) ==
  [variant |-> v, conn |-> "open", nmsgs |-> 0, hpc |-> "receive", wpc |-> "poll",
   pending |-> <<None>>, busy |-> FALSE, cur |-> None,
   text_feedback |-> None, cache_key |-> None, audio_bytes |-> None, error |-> "",
   job |-> "none", job_bytes |-> None]

InitSessions ==
  /\ NoSession
  /\ cache = <<>>
  /\ calls = <<>>
  /\ tempfile = None
  /\ fin = None
  /\ fout = None
  /\ sessions \in [Sessions -> {FreshSession(v) : v \in {"plain", "audio"}}]

\* the worker of session i runs: the handler has not cancelled it
WorkerRuns(i) == sessions[i].hpc = "receive"

\* the handler of session i stores a valid frame
SessionSubmit(i, unit) ==
  /\ sessions[i].hpc = "receive"
  /\ sessions[i].conn = "open"
  /\ sessions[i].nmsgs < MaxSessionMsgs
  /\ sessions' = [sessions EXCEPT ![i].pending = <<unit>>,
                                  ![i].nmsgs = sessions[i].nmsgs + 1]
  /\ UNCHANGED <<svars, cache, calls, tempfile, fin, fout>>

\* WebSocketDisconnect in session i: the finally block cancels the worker
SessionDisconnect(i) ==
  /\ sessions[i].hpc = "receive"
  /\ sessions[i].conn = "open"
  /\ sessions' = [sessions EXCEPT ![i].conn = "closed", ![i].hpc = "returned"]
  /\ UNCHANGED <<svars, cache, calls, tempfile, fin, fout>>

\* CancelledError reaches the worker at its await; finally: busy.clear().
\* The frame of the coroutine is gone; a job handed to the executor goes on
\* in its thread with the arguments it was given.
SessionCancelled(i) ==
  /\ sessions[i].hpc = "returned"
  /\ sessions[i].wpc # "cancelled"
  /\ sessions' = [sessions EXCEPT ![i].wpc = "cancelled", ![i].busy = FALSE,
                                  ![i].pending = <<None>>,
                                  ![i].text_feedback = None, ![i].audio_bytes = None,
                                  ![i].error = ""]
  /\ UNCHANGED <<svars, cache, calls, tempfile, fin, fout>>

\* the worker of session i finds a unit in its slot
SessionTake(i) ==
  /\ WorkerRuns(i)
  /\ sessions[i].wpc = "poll"
  /\ sessions[i].pending[1] # None
  /\ sessions' = [sessions EXCEPT ![i].busy = TRUE, ![i].cur = sessions[i].pending[1],
                                  ![i].pending = <<None>>, ![i].wpc = "infer"]
  /\ UNCHANGED <<svars, cache, calls, tempfile, fin, fout>>

\* run_inference returned in /ws/predict
SessionInferOkPlain(i) ==
  /\ WorkerRuns(i)
  /\ sessions[i].wpc = "infer"
  /\ sessions[i].variant = "plain"
  /\ sessions' = [sessions EXCEPT ![i].wpc = "send"]
  /\ UNCHANGED <<svars, cache, calls, tempfile, fin, fout>>

\* run_inference returned in /ws/predict-audio: the phrase, then
\* generate_audio up to its first await (key, cache lookup, backend job)
SessionInferOkAudio(i, predictions) ==
  /\ WorkerRuns(i)
  /\ sessions[i].wpc = "infer"
  /\ sessions[i].variant = "audio"
  /\ LET text   == WorkerText(predictions).text
         k      == _get_cache_key(text, sessions[i].cur.voice, sessions[i].cur.rate,
                                  sessions[i].cur.pitch)
         cached == _get_cached_audio(cache, k)
     IN  sessions' =
           IF ENABLE_AUDIO_CACHE /\ CachedTruthy(cached)
             THEN [sessions EXCEPT ![i].text_feedback = Some(text), ![i].cache_key = Some(k),
                                   ![i].audio_bytes = Some(cached.data), ![i].wpc = "send"]
             ELSE [sessions EXCEPT ![i].text_feedback = Some(text), ![i].cache_key = Some(k),
                                   ![i].job = "queued", ![i].wpc = "synth"]
  /\ UNCHANGED <<svars, cache, calls, tempfile, fin, fout>>

\* run_inference raised
SessionInferFail(i) ==
  /\ WorkerRuns(i)
  /\ sessions[i].wpc = "infer"
  /\ sessions' = [sessions EXCEPT ![i].error = "InferenceError", ![i].wpc = "send"]
  /\ UNCHANGED <<svars, cache, calls, tempfile, fin, fout>>

\* a thread of the executor runs _generate_gtts for session i
JobGtts(i, bytes) ==
  /\ sessions[i].job = "queued"
  /\ voice_config(sessions[i].cur.voice).backend = "gtts"
  /\ sessions' = [sessions EXCEPT ![i].job = "done", ![i].job_bytes = Some(bytes)]
  /\ UNCHANGED <<svars, cache, calls, tempfile, fin, fout>>

\* a thread of the executor starts _generate_pyttsx3 for session i:
\* save_to_file and runAndWait leave the speech in temp_<pid>.mp3
JobPyttsx3(i, bytes) ==
  /\ sessions[i].job = "queued"
  /\ voice_config(sessions[i].cur.voice).backend = "pyttsx3"
  /\ tempfile' = Some(bytes)
  /\ sessions' = [sessions EXCEPT ![i].job = "p_read"]
  /\ UNCHANGED <<svars, cache, calls, fin, fout>>

\* with open(temp_file, 'rb') as f: audio_bytes = f.read()
JobRead(i) ==
  /\ sessions[i].job = "p_read"
  /\ sessions' = IF tempfile = None
                   THEN [sessions EXCEPT ![i].job = "failed"]
                   ELSE [sessions EXCEPT ![i].job = "p_unlink", ![i].job_bytes = tempfile]
  /\ UNCHANGED <<svars, cache, calls, tempfile, fin, fout>>

\* temp_file.unlink(); return audio_bytes
JobUnlink(i) ==
  /\ sessions[i].job = "p_unlink"
  /\ IF tempfile = None
       THEN /\ sessions' = [sessions EXCEPT ![i].job = "failed", ![i].job_bytes = None]
            /\ tempfile' = tempfile
       ELSE /\ sessions' = [sessions EXCEPT ![i].job = "done"]
            /\ tempfile' = None
  /\ UNCHANGED <<svars, cache, calls, fin, fout>>

\* generate_audio after its await: cache the result and return it, or
\* re-raise what the job raised
SessionSynthResume(i) ==
  /\ WorkerRuns(i)
  /\ sessions[i].wpc = "synth"
  /\ sessions[i].job \in {"done", "failed"}
  /\ IF sessions[i].job = "done"
       THEN /\ cache' = IF ENABLE_AUDIO_CACHE
                          THEN _save_to_cache(cache, sessions[i].cache_key.some,
                                              sessions[i].job_bytes.some)
                          ELSE cache
            /\ sessions' = [sessions EXCEPT ![i].audio_bytes = sessions[i].job_bytes,
                                            ![i].job = "none", ![i].job_bytes = None,
                                            ![i].wpc = "send"]
       ELSE /\ cache' = cache
            /\ sessions' = [sessions EXCEPT ![i].error = "FileNotFoundError",
                                            ![i].job = "none", ![i].job_bytes = None,
                                            ![i].wpc = "send"]
  /\ UNCHANGED <<svars, calls, tempfile, fin, fout>>

\* send_json delivered the result or the error payload; finally:
\* busy.clear(), and the loop polls again
SessionSend(i) ==
  /\ WorkerRuns(i)
  /\ sessions[i].wpc = "send"
  /\ sessions' = [sessions EXCEPT ![i].wpc = "poll", ![i].busy = FALSE, ![i].cur = None,
                                  ![i].text_feedback = None, ![i].cache_key = None,
                                  ![i].audio_bytes = None, ![i].error = ""]
  /\ UNCHANGED <<svars, cache, calls, tempfile, fin, fout>>

NextSessions ==
  \/ \E i \in Sessions : \E unit \in SessionUnits(sessions[i].variant) : SessionSubmit(i, unit)
  \/ \E i \in Sessions : SessionDisconnect(i)
  \/ \E i \in Sessions : SessionCancelled(i)
  \/ \E i \in Sessions : SessionTake(i)
  \/ \E i \in Sessions : SessionInferOkPlain(i)
  \/ \E i \in Sessions : \E predictions \in SessionPredictions :
       SessionInferOkAudio(i, predictions)
  \/ \E i \in Sessions : SessionInferFail(i)
  \/ \E i \in Sessions : sessions[i].job = "queued" /\
       \E bytes \in {Audio(sessions[i].cache_key.some, i)} : JobGtts(i, bytes)
  \/ \E i \in Sessions : sessions[i].job = "queued" /\
       \E bytes \in {Audio(sessions[i].cache_key.some, i)} : JobPyttsx3(i, bytes)
  \/ \E i \in Sessions : JobRead(i)
  \/ \E i \in Sessions : JobUnlink(i)
  \/ \E i \in Sessions : SessionSynthResume(i)
  \/ \E i \in Sessions : SessionSend(i)

SpecSessions == InitSessions /\ [][NextSessions]_vars


\* -------------------------------------------------------------- claims
Range(q) == {q[i] : i \in 1..Len(q)}
Processing == wpc \in {"infer", "synth", "send", "send_err"}

\* C1  Freshest-wins: the slot always holds the unit stored last, so after
\* any run of submits the take returns the last one; a unit overwritten in
\* the slot is never taken, never the worker's current unit and never the
\* unit of a delivered message.
C1_FreshestWins ==
  /\ pending[1] # None => pending[1].id = nextId - 1
  /\ \A i \in 1..Len(taken) : taken[i] \notin dropped
  /\ cur # None => cur.id \notin dropped
  /\ \A k \in 1..Len(sent) : sent[k].unit \notin dropped
  /\ \A id \in 1..(nextId - 1) :
       \/ id \in dropped
       \/ id \in Range(taken)
       \/ (pending[1] # None /\ pending[1].id = id)

\* two units were stored before a take, and the answer came from the second
C1_Witness ==
  /\ dropped = {1}
  /\ \E k \in 1..Len(sent) : sent[k].unit = 2 /\ sent[k].error = ""

\* C2  Mailbox slot: the slot is a one-element list holding None or one
\* stored unit; a taken unit is no longer in the slot (read and clear are
\* one step), no unit is taken twice, and what the worker processes is a
\* unit that was stored, the last one it took.
C2_MailboxSlot ==
  /\ Len(pending) = 1
  /\ pending[1] # None =>
       /\ pending[1].id \in 1..(nextId - 1)
       /\ pending[1].id \notin Range(taken)
  /\ \A i, j \in 1..Len(taken) : i < j => taken[i] < taken[j]
  /\ \A i \in 1..Len(taken) : taken[i] \in 1..(nextId - 1)
  /\ Processing => (cur # None /\ Len(taken) > 0 /\ cur.id = taken[Len(taken)])
  /\ Len(taken) + Cardinality(dropped) + (IF pending[1] = None THEN 0 ELSE 1) = nextId - 1

\* a unit was taken, and the next one already waits in the slot behind it
C2_Witness ==
  /\ Processing
  /\ cur.id = 1
  /\ pending[1] # None
  /\ pending[1].id = 2

\* C3  Order of responses: the k-th message the worker delivered answers
\* the k-th unit it took, at most one taken unit is unanswered (the one in
\* progress or the one whose sends failed), and no overwritten unit is
\* answered.
C3_ProcessedOrder ==
  /\ Len(sent) <= Len(taken)
  /\ Len(taken) <= Len(sent) + 1
  /\ \A k \in 1..Len(sent) : sent[k].unit = taken[k]
  /\ wpc = "poll" => Len(sent) = Len(taken)
  /\ \A k \in 1..Len(sent) : sent[k].unit \notin dropped

\* two units answered one after the other
C3_Witness ==
  /\ Len(sent) = 2
  /\ sent[1].unit = 1
  /\ sent[2].unit = 2

\* C4  Eventual wake-up, its safety part: the handler accepts a frame and
\* stores it in the slot only while a worker is left to take it.
C4_WorkerLeftForAcceptedUnit ==
  [][ nextId' > nextId => ~WorkerFinished ]_vars

\* the worker's step that ends the wait for the delivery of an error payload
ErrorSendEnds(e) ==
  /\ wpc = "send_err"
  /\ out = [error |-> e]
  /\ wpc' \notin {"send_err", "cancelled"}

\* C5  A classification failure is not fatal: when the transport works,
\* the worker's error payload for the failed unit is delivered as the next
\* message, and the worker is back at the loop head, waiting or already
\* processing a later unit.
C5_ClassificationNonFatal ==
  [][ (ErrorSendEnds("InferenceError") /\ SendWorks(conn)) =>
        /\ sent' = Append(sent, [unit |-> cur.id, error |-> "InferenceError",
                                 keys |-> {"error"}])
        /\ wpc' \in {"poll", "infer"}
        /\ wpc' = "infer" => cur'.id > cur.id ]_vars

\* a classification error was answered and the next unit got its result
C5_Witness ==
  /\ Len(sent) = 2
  /\ sent[1].error = "InferenceError"
  /\ sent[2].error = ""
  /\ sent[2].unit > sent[1].unit

\* C6  A synthesis backend failure leaves the cache as it was, is answered
\* with an error payload for that unit when the transport works, and the
\* worker is back at the loop head.
C6_SynthesisFailure ==
  [][ /\ (wpc = "synth" /\ wpc' = "send_err" /\ out' = [error |-> "SynthesisError"])
           => cache' = cache
      /\ (ErrorSendEnds("SynthesisError") /\ SendWorks(conn)) =>
           /\ sent' = Append(sent, [unit |-> cur.id, error |-> "SynthesisError",
                                    keys |-> {"error"}])
           /\ wpc' \in {"poll", "infer"}
           /\ cache' = cache ]_vars

\* a synthesis error was answered, the cache is still empty, and the worker
\* went on to answer the next unit with an error of another kind
C6_Witness ==
  /\ Len(sent) = 2
  /\ sent[1].error = "SynthesisError"
  /\ sent[2].unit = 2
  /\ cache = <<>>

\* C7  A failed send ends the worker: when the send of a result fails the
\* error payload's send fails too, no message is delivered and no unit
\* taken from then on, and the worker stays terminated.
C7_SendFailureEndsWorker ==
  [][ /\ (wpc = "send" /\ ~SendWorks(conn) /\ wpc' # "send") =>
           /\ wpc' \in {"send_err", "cancelled"}
           /\ taken' = taken /\ sent' = sent
      /\ (wpc = "send_err" /\ ~SendWorks(conn)) =>
           /\ wpc' \in {"send_err", "done", "cancelled"}
           /\ taken' = taken /\ sent' = sent
      /\ (wpc' = "send_err" /\ out' = [error |-> "SendFailed"]) => ~SendWorks(conn')
      /\ wpc = "done" =>
           /\ wpc' = "done"
           /\ taken' = taken /\ sent' = sent /\ ~busy' ]_vars

\* the worker ended on a failed send while a later unit waits in the slot
C7_Witness ==
  /\ wpc = "done"
  /\ Len(taken) = Len(sent) + 1
  /\ pending[1] # None

\* C8  Teardown: when the handler has returned the worker has finished
\* (cancelled or ended), holds no unit and no payload, and from then on
\* nothing is taken or delivered; a unit in flight at cancellation stays
\* unanswered and is not put back.
C8_CancelledAndAwaited ==
  [][ /\ hpc' = "returned" =>
           /\ WorkerFinished'
           /\ ~busy' /\ cur' = None /\ out' = None /\ loc' = None
      /\ hpc = "returned" =>
           /\ taken' = taken /\ sent' = sent /\ wpc' = wpc /\ pending' = pending ]_vars

\* the handler returned after cancelling a worker that was processing
C8_Witness ==
  /\ hpc = "returned"
  /\ wpc = "cancelled"
  /\ Len(taken) = Len(sent) + 1

\* C9  The busy flag is set exactly while the worker processes a unit.
C9_BusyFlag == busy <=> Processing

\* cancelled in the middle of a unit, with the flag cleared
C9_Witness ==
  /\ hpc = "await_task"
  /\ wpc = "cancelled"
  /\ Len(taken) = Len(sent) + 1
  /\ ~busy

\* the error payload the spec assigns to a malformed text frame ("" for a
\* well-formed one)
ExpectedReply(raw) ==
  IF raw.len * 10 > WS_MAX_MESSAGE_BYTES * 14 THEN "Frame too large."
  ELSE IF raw.body = NotJson THEN "Invalid JSON."
  ELSE IF raw.body.t # "dict" \/ "frame" \notin DOMAIN raw.body.v THEN "Missing 'frame' key."
  ELSE IF "str" \notin DOMAIN raw.body.v.frame \/ raw.body.v.frame.str \notin B64Decodable
    THEN "Invalid base64 in 'frame'."
  ELSE ""

\* C10  Every malformed text frame is answered with its error payload and
\* the handler keeps receiving (unless the answer could not be sent because
\* the client was gone).
C10_MalformedAnswered ==
  (lastRaw # None /\ ExpectedReply(lastRaw) # "") =>
    \/ hexc = "SendFailed"
    \/ /\ hreply = [error |-> ExpectedReply(lastRaw)]
       /\ hexc \in {"", "WebSocketDisconnect"}

\* C14  Cache round trip: after _save_to_cache(k, X), _get_cached_audio(k)
\* returns exactly X, whatever the directory held under k before; a key with
\* no file is absent.
C14_CacheRoundTrip ==
  (fin # None /\ fin.op = "cache" /\ fout # None) =>
    /\ fout.got = [found |-> TRUE, data |-> fin.blob]
    /\ fin.probe \notin DOMAIN fin.files => ~fout.before.found

\* a two-byte blob put over an older file and read back, another key absent
C14_Witness ==
  /\ fin # None /\ fin.op = "cache" /\ fout # None
  /\ fin.key \in DOMAIN fin.files
  /\ fin.files[fin.key] = <<7>>
  /\ fin.blob = <<1, 2>>
  /\ fout.got.data = <<1, 2>>
  /\ fin.probe # fin.key
  /\ ~fout.before.found

\* C17  Cache key separation: two requests yield the same string for the
\* digest exactly when their (text, voice, rate, pitch) are the same, also
\* for texts and voice names that hold the separator.
C17_KeySeparation ==
  (fin # None /\ fin.op = "key" /\ fout # None) =>
    ((fin.a = fin.b) <=> (fout.ka = fout.kb))

\* C18  Zero detections: the audio streaming worker's text feedback for an
\* empty detection list is "No objects detected. Clear path ahead".
C18_ZeroDetectionsPhrase ==
  (variant = "audio" /\ wpc = "send" /\ out.predictions = <<>>) =>
    out.text_feedback = <<"No objects detected. Clear path ahead">>

\* the phrase the claim gives for a key of a documented position
C19_Phrase(k) ==
  CASE k = "front"  -> "in front of you"
    [] k = "center" -> "ahead"
    [] k = "left"   -> "on your left side"
    [] k = "right"  -> "on your right side"
    [] k = "close"  -> "very close"
    [] k = "medium" -> "at medium distance"
    [] k = "far"    -> "far ahead"
C19_Label(l) ==
  CASE l = "barriers"   -> "Barriers"
    [] l = "fire_exits" -> "Fire exits"
C19_Part(det, k) ==
  IF k \in DOMAIN det THEN <<" ", C19_Phrase(det[k].str)>> ELSE <<>>
C19_Documented(det) ==
  /\ det.label \in {"barriers", "fire_exits"}
  /\ "direction" \in DOMAIN det => det.direction.str \in {"front", "center", "left", "right"}
  /\ "distance" \in DOMAIN det => det.distance.str \in {"close", "medium", "far"}

C20_Danger(det) ==
  det.label \in {"fire", "potholes", "vehicles", "barriers", "construction_site"}
C20_Confidence(det) == IF "confidence" \in DOMAIN det THEN det.confidence ELSE 0
\* detection i of the list comes before detection j
C20_Before(dets, i, j) ==
  \/ C20_Danger(dets[i]) /\ ~C20_Danger(dets[j])
  \/ /\ C20_Danger(dets[i]) = C20_Danger(dets[j])
     /\ \/ C20_Confidence(dets[i]) > C20_Confidence(dets[j])
        \/ C20_Confidence(dets[i]) = C20_Confidence(dets[j]) /\ i < j
\* the list in priority order, ties in input order
C20_Order(dets) ==
  [k \in 1..Len(dets) |->
     dets[CHOOSE i \in 1..Len(dets) :
            Cardinality({j \in 1..Len(dets) : C20_Before(dets, j, i)}) = k - 1]]
C20_Leading(dets) ==
  LET ord == C20_Order(dets)
      n   == IF Len(dets) < 3 THEN Len(dets) ELSE 3
  IN  Join([k \in 1..n |->
              get_direction_text(ord[k].label, DetGet(ord[k], "direction"),
                                 DetGet(ord[k], "distance")).text], ". ")

\* C20  Priority order: for two or more detections the phrase renders them
\* by (danger class, confidence) descending, ties in input order.
C20_PriorityOrder ==
  (fin # None /\ fin.op = "phrase" /\ fout # None /\ Len(fin.detections) >= 2) =>
    /\ fout.ok
    /\ Len(fout.text) >= Len(C20_Leading(fin.detections))
    /\ SubSeq(fout.text, 1, Len(C20_Leading(fin.detections))) = C20_Leading(fin.detections)

\* fire at 80 is said before walls and doors at 95, which keep their order
C20_Witness ==
  /\ fin # None /\ fin.op = "phrase"
  /\ fin.detections = <<[label |-> "walls", confidence |-> 95],
                        [label |-> "fire", confidence |-> 80],
                        [label |-> "doors", confidence |-> 95]>>
  /\ fout = [ok |-> TRUE,
             text |-> <<"Fire", " ", "detected", ". ", "Walls", " ", "detected", ". ",
                        "Doors", " ", "detected">>]

\* the call that a step of generate_audio has just started, if any
Started(c) == c = Len(calls') /\ Len(calls') = Len(calls) + 1

\* C11  Cache hit short-circuit: a call started with caching enabled while
\* the cache holds an entry for its key returns that entry's bytes at once,
\* with no backend job and no cache write.
C11_CacheHitShortCircuit ==
  [][ \A c \in 1..Len(calls') :
        (Started(c) /\ calls'[c].use_cache /\ calls'[c].cache_key \in DOMAIN cache) =>
          /\ calls'[c].pc = "returned"
          /\ calls'[c].ret = Some(cache[calls'[c].cache_key])
          /\ cache' = cache ]_vars

\* C12  A cache write failure never fails the call: a call whose backend
\* handed back bytes ends by returning those bytes.
C12_CacheWriteNonFatal ==
  \A c \in 1..Len(calls) :
    (Finished(calls[c]) /\ calls[c].audio_bytes # None) =>
      /\ calls[c].pc = "returned"
      /\ calls[c].ret = calls[c].audio_bytes

SameRequest(f, g) ==
  /\ f.text = g.text /\ f.voice = g.voice /\ f.rate = g.rate /\ f.pitch = g.pitch

\* C13  Sequential idempotence: of two calls with the same arguments and
\* caching enabled, the second started after the first returned, the second
\* returns the bytes the first returned.
C13_SequentialIdempotence ==
  \A c1, c2 \in 1..Len(calls) :
    ( /\ c1 \in calls[c2].after
      /\ calls[c1].pc = "returned" /\ calls[c2].pc = "returned"
      /\ calls[c1].use_cache /\ calls[c2].use_cache
      /\ SameRequest(calls[c1], calls[c2]) ) =>
      calls[c2].ret = calls[c1].ret

\* bytes a completed backend invocation for the key may have handed back
ProducedFor(k, bytes) == \E c \in 1..MaxCalls : bytes \in BackendOutputs(k, c)

\* C15  Concurrent calls: as long as no cache write has failed, every cache
\* entry holds the complete bytes of a backend invocation made for its own
\* key, and every call that returned got bytes produced for its own
\* arguments.
C15_ConcurrentCacheSafe ==
  (\A c \in 1..Len(calls) : calls[c].error # "OSError") =>
    /\ \A k \in DOMAIN cache : ProducedFor(k, cache[k])
    /\ \A c \in 1..Len(calls) :
         calls[c].pc = "returned" => ProducedFor(calls[c].cache_key, calls[c].ret.some)

\* C16  Voice resolution: a call with a voice name outside VOICE_PRESETS
\* does not raise on resolving it, runs the gtts backend with the parameters
\* of en-US-female-1, and its cache key is built from the name as requested.
C16_UnknownVoiceDefault ==
  \A c \in 1..Len(calls) :
    calls[c].voice.str \notin DOMAIN VOICE_PRESETS =>
      /\ calls[c].cache_key = calls[c].text \o <<"|", calls[c].voice.str, "|", "1.0", "|", "1.0">>
      /\ calls[c].voice_config # None =>
           calls[c].voice_config = [backend |-> "gtts", lang |-> "en", tld |-> "com"]
      /\ calls[c].pc \notin {"p_read", "p_unlink", "edge"}
      /\ calls[c].error \in {"", "SynthesisError", "OSError"}

\* a call with an unknown voice went through the gtts backend, returned its
\* bytes and cached them under the key that carries the unknown name
C16_Witness ==
  \E c \in 1..Len(calls) :
    /\ calls[c].voice = JStr("xx-YY-robot")
    /\ calls[c].pc = "returned"
    /\ calls[c].voice_config.backend = "gtts"
    /\ calls[c].ret = Some(Audio(<<"a", "|", "xx-YY-robot", "|", "1.0", "|", "1.0">>, c))
    /\ <<"a", "|", "xx-YY-robot", "|", "1.0", "|", "1.0">> \in DOMAIN cache
    /\ <<"a", "|", "en-US-female-1", "|", "1.0", "|", "1.0">> \notin DOMAIN cache

\* the trailing item of the claim for a list of n detections
C21_More(n) ==
  IF n > 3
    THEN << <<"And ", CASE n = 4 -> "1" [] n = 5 -> "2" [] n = 6 -> "3", " more objects">> >>
    ELSE <<>>
C21_Items(dets) ==
  LET ord == C20_Order(dets)
      n   == IF Len(dets) < 3 THEN Len(dets) ELSE 3
  IN  [k \in 1..n |->
         get_direction_text(ord[k].label, DetGet(ord[k], "direction"),
                            DetGet(ord[k], "distance")).text]

\* C21  Top-3 truncation: for n >= 2 detections the phrase is the renderings
\* of the first min(n, 3) detections in priority order joined by '. ', with
\* 'And N more objects', N = n - 3, appended exactly when n > 3.
C21_TopThree ==
  (fin # None /\ fin.op = "phrase" /\ fout # None /\ Len(fin.detections) >= 2) =>
    fout = [ok |-> TRUE,
            text |-> Join(C21_Items(fin.detections) \o C21_More(Len(fin.detections)), ". ")]

\* four detections: three are said, the fourth is counted
C21_Witness ==
  /\ fin # None /\ fin.op = "phrase"
  /\ fin.detections = <<[label |-> "doors", confidence |-> 95],
                        [label |-> "potholes"],
                        [label |-> "fire", confidence |-> 80],
                        [label |-> "walls", confidence |-> 95]>>
  /\ fout = [ok |-> TRUE,
             text |-> <<"Fire", " ", "detected", ". ", "Potholes", " ", "detected", ". ",
                        "Doors", " ", "detected", ". ", "And ", "1", " more objects">>]

\* C22  A detection labelled clear_path is rendered as 'Clear path ahead'
\* whatever direction and distance it carries.
C22_ClearPath ==
  (fin # None /\ fin.op = "phrase" /\ fout # None /\ Len(fin.detections) = 1
     /\ fin.detections[1].label = "clear_path") =>
    fout = [ok |-> TRUE, text |-> <<"Clear path ahead">>]

\* clear_path with an undocumented direction and an undocumented distance
C22_Witness ==
  /\ fin # None /\ fin.op = "phrase"
  /\ fin.detections = <<[label |-> "clear_path", confidence |-> 90,
                         direction |-> JStr("behind"), distance |-> JStr("near")]>>
  /\ fout = [ok |-> TRUE, text |-> <<"Clear path ahead">>]

C23_SameKey(a, b) ==
  C20_Danger(a) = C20_Danger(b) /\ C20_Confidence(a) = C20_Confidence(b)
\* the rearrangement keeps detections of equal key in their relative order
C23_KeepsTies(dets, perm) ==
  \A i, j \in 1..Len(dets) :
    (i < j /\ C23_SameKey(dets[perm[i]], dets[perm[j]])) => perm[i] < perm[j]

\* C23  Rearranging a list without changing the relative order of
\* detections of equal key (in particular any rearrangement of a list with
\* pairwise distinct keys) leaves the phrase unchanged.
C23_PermutationInvariant ==
  (fin # None /\ fin.op = "perm" /\ fout # None
     /\ C23_KeepsTies(fin.detections, fin.perm)) =>
    fout.pa = fout.pb

\* three detections of distinct keys, reversed, give the same phrase
C23_Witness ==
  /\ fin # None /\ fin.op = "perm" /\ fout # None
  /\ fin.detections = <<[label |-> "doors", confidence |-> 95],
                        [label |-> "potholes"],
                        [label |-> "fire", confidence |-> 80]>>
  /\ fin.perm = <<3, 2, 1>>
  /\ fout.pa = fout.pb
  /\ fout.pa = [ok |-> TRUE,
                text |-> <<"Fire", " ", "detected", ". ", "Potholes", " ", "detected", ". ",
                           "Doors", " ", "detected">>]

\* C24  No automatic retry: the slot changes only by a store of the handler
\* or by a take that empties it, a unit is taken at most once and classified
\* only on being taken, synthesis starts only out of classification, a
\* delivered message answers the unit in progress, which had no answer yet,
\* and the worker goes on from a unit only after exactly one message for it.
C24_NoRetry ==
  [][ /\ pending' # pending => (nextId' > nextId \/ pending' = <<None>>)
      /\ taken' # taken =>
           /\ taken' = Append(taken, pending[1].id)
           /\ pending[1].id \notin Range(taken)
      /\ (wpc' = "infer" /\ (wpc # "infer" \/ cur' # cur)) => taken' = Append(taken, cur'.id)
      /\ (wpc' = "synth" /\ wpc # "synth") => wpc = "infer"
      /\ sent' # sent =>
           /\ Len(sent') = Len(sent) + 1
           /\ sent'[Len(sent')].unit = cur.id
           /\ \A k \in 1..Len(sent) : sent[k].unit # cur.id
      /\ (Processing /\ cur' # cur /\ wpc' \notin {"done", "cancelled"}) =>
           /\ Len(sent') = Len(sent) + 1
           /\ sent'[Len(sent')].unit = cur.id ]_vars

\* an error was answered, the worker waits again and the unit is not back
C24_Witness ==
  /\ Len(sent) = 1
  /\ sent[1].error # ""
  /\ taken = <<1>>
  /\ wpc = "poll"
  /\ pending = <<None>>
  /\ hpc = "receive"
  /\ conn = "open"

\* C25  The handler never waits for processing: while the worker is busy a
\* valid frame can be received at once, and receiving it stores it in the
\* slot and leaves the handler receiving and the worker where it was.
C25_HandlerNeverWaits ==
  /\ []( (hpc = "receive" /\ conn = "open" /\ nmsgs < MaxMsgs /\ busy) =>
           \A raw \in Messages :
             HandlerOutcome(raw).kind = "submit" => ENABLED HandlerSubmit(raw) )
  /\ [][ (busy /\ nextId' > nextId) =>
           /\ pending'[1] # None
           /\ pending'[1].id = nextId
           /\ hpc' = "receive"
           /\ busy' /\ wpc' = wpc /\ cur' = cur ]_vars

\* a frame was stored while the first unit was in synthesis
C25_Witness ==
  /\ wpc = "synth"
  /\ busy
  /\ cur.id = 1
  /\ pending[1] # None
  /\ pending[1].id = 2
  /\ hpc = "receive"

C28_Carries(det, k, x) ==
  IF Truthy(x) THEN k \in DOMAIN det /\ det[k] = x ELSE k \notin DOMAIN det

\* C28  Data flow of the audio variant: in the result for the unit in
\* progress every detection carries the unit's direction and distance (or
\* neither), text_feedback is the phrase of the phrase builder for those
\* detections, and with caching the audio is the cache entry under the key
\* of that text and the unit's own voice, rate and pitch.
C28_AudioDataFlow ==
  (variant = "audio" /\ wpc = "send" /\ "error" \notin DOMAIN out) =>
    /\ \A i \in 1..Len(out.predictions) :
         /\ C28_Carries(out.predictions[i], "direction", cur.direction)
         /\ C28_Carries(out.predictions[i], "distance", cur.distance)
    /\ get_multiple_objects_text(out.predictions) = [ok |-> TRUE, text |-> out.text_feedback]
    /\ LET k == out.text_feedback \o <<"|">> \o StrChars(PyStr(cur.voice))
                  \o <<"|", FormatFloat(cur.rate), "|", FormatFloat(cur.pitch)>>
       IN  (ENABLE_AUDIO_CACHE /\ k \in DOMAIN cache) => out.audio = [b64 |-> cache[k]]

\* C29  A rejected message leaves the mailbox alone: the step in which the
\* handler answers a text frame with a validation error changes neither the
\* slot nor the busy flag nor the cache nor the worker, and the worker is
\* there to take a unit that waits.
C29_RejectLeavesMailbox ==
  [][ (nmsgs' > nmsgs /\ hreply' # None) =>
        /\ pending' = pending
        /\ busy' = busy
        /\ cache' = cache
        /\ wpc' = wpc /\ cur' = cur /\ taken' = taken
        /\ ~WorkerFinished ]_vars

\* a frame was rejected while an earlier unit still waits in the slot
C29_Witness ==
  /\ hreply # None
  /\ nmsgs = 2
  /\ pending[1] # None
  /\ pending[1].id = 1
  /\ wpc = "poll"
  /\ taken = <<>>

\* the calls that run _generate_pyttsx3
C30_Offline ==
  { c \in 1..Len(calls) :
      calls[c].voice_config # None /\ calls[c].voice_config.backend = "pyttsx3" }

\* C30  Concurrent offline syntheses do not interfere: when the calls on
\* the pyttsx3 backend have pairwise different texts, none of them fails on
\* the temporary file, each reads the audio generated for its own text, and
\* each that returned handed back that audio and cached it under its own key.
C30_OfflineNoInterference ==
  (\A c, d \in C30_Offline : c # d => calls[c].text # calls[d].text) =>
    \A c \in C30_Offline :
      /\ calls[c].error # "FileNotFoundError"
      /\ calls[c].audio_bytes # None =>
           calls[c].audio_bytes.some \in BackendOutputs(calls[c].cache_key, c)
      /\ calls[c].pc = "returned" =>
           /\ calls[c].ret.some \in BackendOutputs(calls[c].cache_key, c)
           /\ calls[c].use_cache =>
                /\ calls[c].cache_key \in DOMAIN cache
                /\ cache[calls[c].cache_key] = calls[c].ret.some

\* bytes that were synthesized for the request with key k, or no bytes
C26_MadeFor(k, bytes) == bytes = <<>> \/ bytes[1].for = k

\* C26  Session isolation: a step that changes one session changes no
\* other session's slot, busy flag or worker, and nothing but the cache
\* carries anything from one session to another: the audio a session's
\* worker holds was synthesized for its own text and voice, and its
\* synthesis does not fail on a file another session removed.
C26_SessionIsolation ==
  /\ [][ \A i \in Sessions :
           sessions'[i] # sessions[i] =>
             \A j \in Sessions \ {i} : sessions'[j] = sessions[j] ]_vars
  /\ []( \A i \in Sessions :
           /\ sessions[i].job # "failed"
           /\ sessions[i].error # "FileNotFoundError"
           /\ sessions[i].job_bytes # None =>
                C26_MadeFor(sessions[i].cache_key.some, sessions[i].job_bytes.some)
           /\ sessions[i].audio_bytes # None =>
                C26_MadeFor(sessions[i].cache_key.some, sessions[i].audio_bytes.some) )

\* C31  With use_cache false generate_audio stays off the cache: such a
\* call goes to the backend even when the cache holds an entry for its key,
\* no step of it changes the cache, and what it returns is what its backend
\* invocation handed back.
C31_CacheBypass ==
  [][ \A c \in 1..Len(calls') :
        ~calls'[c].use_cache =>
          /\ Started(c) =>
               /\ calls'[c].pc \in {"queued", "edge"}
               /\ cache' = cache
          /\ (c <= Len(calls) /\ calls'[c] # calls[c]) => cache' = cache
          /\ calls'[c].pc = "returned" =>
               /\ calls'[c].audio_bytes # None
               /\ calls'[c].ret = calls'[c].audio_bytes
               /\ calls'[c].ret.some \in BackendOutputs(calls'[c].cache_key, c) ]_vars

\* a call with use_cache false returned fresh bytes while the cache held,
\* and still holds, other bytes under its key
C31_Witness ==
  /\ Len(calls) = 2
  /\ ~calls[2].use_cache
  /\ 1 \in calls[2].after
  /\ calls[2].pc = "returned"
  /\ calls[2].cache_key \in DOMAIN cache
  /\ cache[calls[2].cache_key] = Audio(calls[2].cache_key, 1)
  /\ calls[2].ret = Some(Audio(calls[2].cache_key, 2))

\* the unit carries a non-empty direction that is not one of the four
C32_OddDirection(unit) ==
  Truthy(unit.direction) /\ unit.direction.str \notin {"front", "left", "right", "center"}
\* the unit carries a non-empty distance that is not one of the three
C32_OddDistance(unit) ==
  Truthy(unit.distance) /\ unit.distance.str \notin {"close", "medium", "far"}
\* the detections have something to render besides a clear path
C32_Renders(dets) ==
  \E i \in 1..Len(dets) : dets[i].label # "clear_path"
\* how often the token occurs in the text
C32_Count(text, tok) == Cardinality({i \in 1..Len(text) : text[i] = tok})

====
